---------------------------- MODULE Spec2Model ----------------------------
(***************************************************************************)
(* convolut-mcp: a JSON-RPC (MCP) stdio adapter in front of the Convolut   *)
(* REST API.  Three layers are modelled, each with its own specification:  *)
(*                                                                         *)
(*   SpecTransport  ConvolutAPIClient.request, the redirect-following      *)
(*                  HTTPS transport (one call, request by request)         *)
(*   SpecTools      the tool handlers: validation, the one remote call,    *)
(*                  presentation of the remote's answer                    *)
(*   Spec           the dispatch loop of stdio-client.cjs: one 'line'      *)
(*                  event at a time, handleMCPRequest, the output stream   *)
(***************************************************************************)
EXTENDS Integers, Sequences, FiniteSets, TLC

VARIABLES
    \* ---- transport (ConvolutAPIClient.request) ----
    remote,      \* the remote's redirect chain, fixed for the whole call
    options,     \* the options argument of request(): method, body
    maxRedirects,\* the maxRedirects argument of the current (recursive) call
    url,         \* the url of the current (recursive) call
    redirectUrl, \* the url the redirected request of the current call went to
    tpc,         \* "idle" | "req" | "redirectReq" | "done"
    sent,        \* the HTTPS requests issued so far, in order
    outcome,     \* how the promise settled: resolve(body) or reject(error)
    \* ---- one tool invocation (toolHandler(args, apiClient)) ----
    tool,        \* the tool's name
    impl,        \* the module the handler comes from
    args,        \* the arguments object
    hpc,         \* "idle" | "awaiting" (the client's call is in flight) | "returned"
    calls,       \* the requests the client issued for this invocation
    answer,      \* what the awaited client call got from the remote
    result,      \* the Tool Result the handler returned
    \* ---- the dispatch loop (stdio-client.cjs) ----
    log,         \* the input lines read so far, in order
    micro,       \* line handlers waiting for the microtask queue, in order
    pending,     \* line handlers waiting for their tool's remote call
    output,      \* the response lines written, each with the line it answers
    invoked,     \* the tool handlers called: line, tool, the remote call issued
    proc,        \* the process: running, or exited with a code
    \* ---- a series of tool calls against one remote dataset ----
    dataset,     \* what the remote answers to GET /contexts, fixed for the series
    history      \* the tool calls that returned, in order: args, answer, result

transportVars == <<remote, options, maxRedirects, url, redirectUrl, tpc, sent, outcome>>

toolVars == <<tool, impl, args, hpc, calls, answer, result>>

dispatchVars == <<log, micro, pending, output, invoked, proc>>

seriesVars == <<dataset, history>>

vars == <<remote, options, maxRedirects, url, redirectUrl, tpc, sent, outcome,
          tool, impl, args, hpc, calls, answer, result,
          log, micro, pending, output, invoked, proc,
          dataset, history>>

-----------------------------------------------------------------------------
(* Bounds of the model *)

\* longest redirect chain the remote is given
MaxChain == 7

\* most contexts in one list answer
MaxItems == 2

\* most tool calls in one series against the same dataset
MaxCalls == 3

\* most input lines the dispatch loop is given
MaxLines == 2

-----------------------------------------------------------------------------
(***************************************************************************)
(* JavaScript values, as far as the handlers look at them.  A string is    *)
(* lead blanks, a core of len characters named w (no blank at either end), *)
(* and trail blanks.                                                       *)
(***************************************************************************)

Undefined == [t |-> "undefined"]
Null == [t |-> "null"]
Bool(b) == [t |-> "boolean", b |-> b]
Num(n) == [t |-> "number", n |-> n]
Str(lead, w, len, trail) == [t |-> "string", lead |-> lead, w |-> w, len |-> len, trail |-> trail]
Arr(s) == [t |-> "array", items |-> s]

\* a string without surrounding blanks
Word(w, len) == Str(0, w, len, 0)

\* typeof v
TypeOf(v) ==
    CASE v.t = "undefined" -> "undefined"
      [] v.t = "boolean"   -> "boolean"
      [] v.t = "number"    -> "number"
      [] v.t = "string"    -> "string"
      [] OTHER             -> "object"

\* Array.isArray(v)
IsArray(v) == v.t = "array"

\* s.length
StrLength(s) == s.lead + s.len + s.trail

\* s.trimStart(): the trailing blanks stay
TrimStart(s) == Str(0, s.w, s.len, s.trail)

\* s.trim()
Trim(s) == Str(0, s.w, s.len, 0)

\* ToBoolean(v): what `if (v)`, `!v` and `v || w` look at
Truthy(v) ==
    CASE v.t = "undefined" -> FALSE
      [] v.t = "null"      -> FALSE
      [] v.t = "boolean"   -> v.b
      [] v.t = "number"    -> v.n # 0
      [] v.t = "string"    -> StrLength(v) > 0
      [] OTHER             -> TRUE

\* v || w
Or(v, w) == IF Truthy(v) THEN v ELSE w

\* response.<name> of a parsed list answer: an array has none of the
\* envelope's properties
Prop(v, name) ==
    IF v.t = "object" /\ name \in DOMAIN v THEN v[name] ELSE Undefined

\* v.<name> throws a TypeError: v is null or undefined
Unreadable(v) == v.t \in {"null", "undefined"}

\* a < b on the values a list answer carries (numbers; undefined is NaN,
\* null is 0)
LessThan(a, b) ==
    LET n(v) == IF v.t = "number" THEN v.n ELSE 0 IN
    IF a.t = "undefined" \/ b.t = "undefined" THEN FALSE ELSE n(a) < n(b)

\* Math.floor(a / b) for a >= 0, b > 0
FloorDiv(a, b) == a \div b

\* Math.round(a / b) for a >= 0, b > 0
RoundDiv(a, b) == (2 * a + b) \div (2 * b)

-----------------------------------------------------------------------------
(***************************************************************************)
(* Transport: ConvolutAPIClient.request(endpoint, options, maxRedirects=5) *)
(***************************************************************************)

\* default value of the maxRedirects parameter
DefaultMaxRedirects == 5

ApiHost == "api.convolut.app"
OtherHost == "cdn.example.net"

\* A url is a host and a path; a path is "/v1/n<k>" (v1 = TRUE) or "/n<k>".
Url(host, v1, node) == [host |-> host, v1 |-> v1, node |-> node]

\* new URL(`${this.baseUrl}${endpoint}`): every endpoint lands under
\* https://api.convolut.app/v1
BaseUrl(endpoint) == Url(ApiHost, TRUE, endpoint.node)

\* the endpoint of a path: pathname + search of a url
PathOf(u) == [v1 |-> u.v1, node |-> u.node]

\* newEndpoint.replace('/v1', ''): the path with its /v1 prefix removed
StripV1(path) == [v1 |-> FALSE, node |-> path.node]

\* The headers request() builds: fixed, plus options.headers (never given
\* by the client's methods).
RequestHeaders == {"Content-Type", "api_key", "User-Agent"}

\* The options the client's methods pass to request().
ClientOptions ==
    { [method |-> "GET",    body |-> "none"],      \* listContexts
      [method |-> "POST",   body |-> "payload"],   \* createContext, consolidate, plan, export, raw-url
      [method |-> "PUT",    body |-> "payload"],   \* updateContext
      [method |-> "DELETE", body |-> "none"] }     \* deleteContext

RedirectCodes == {301, 302, 307}

\* Forms of a Location header.
\*   relV1     "/v1/n3"                         relative, under /v1
\*   absV1     "https://api.convolut.app/v1/n3" absolute, same host, under /v1
\*   relRoot   "/n3"                            relative, outside /v1
\*   absOther  "https://cdn.example.net/n3"     absolute, another host
LocationForms == {"relV1", "absV1", "relRoot", "absOther"}

Location(form, node) ==
    [absolute |-> form \in {"absV1", "absOther"},
     host     |-> IF form = "absOther" THEN OtherHost
                  ELSE IF form = "absV1" THEN ApiHost ELSE "",
     v1       |-> form \in {"relV1", "absV1"},
     node     |-> node]

\* location.startsWith('http') ? new URL(location)
\*                             : new URL(location, `https://${url.hostname}`)
ResolveLocation(location, current) ==
    IF location.absolute
    THEN Url(location.host, location.v1, location.node)
    ELSE Url(current.host, location.v1, location.node)

\* How a chain can end.
\*   ok          200 with a JSON body
\*   badJson     200 with a body that is not JSON
\*   apiError    a 4xx/5xx status
\*   noLocation  a redirect status without a Location header
\*   badLocation a redirect status whose Location starts with http and is no url
FinalAnswers == {"ok", "badJson", "apiError", "noLocation", "badLocation"}

\* The remotes the call is checked against: url n0 redirects to n1, ... up
\* to n<chainLen>, which gives the final answer; every other url answers
\* offChain.
Remotes ==
    [chainLen : 0..MaxChain,
     code     : RedirectCodes,
     form     : LocationForms,
     final    : FinalAnswers,
     offChain : {"ok", "apiError"}]

ChainUrl(r, i) ==
    IF i = 0 THEN Url(ApiHost, TRUE, 0)
    ELSE ResolveLocation(Location(r.form, i), Url(ApiHost, TRUE, i - 1))

Response(status, location, body) ==
    [status |-> status, location |-> location, body |-> body]

NoLocation == [absolute |-> FALSE, host |-> "", v1 |-> FALSE, node |-> -1]
BadLocation == [absolute |-> TRUE, host |-> "", v1 |-> FALSE, node |-> -2]

FinalResponse(kind, node) ==
    CASE kind = "ok"          -> Response(200, NoLocation, [json |-> TRUE, at |-> node])
      [] kind = "badJson"     -> Response(200, NoLocation, [json |-> FALSE, at |-> node])
      [] kind = "apiError"    -> Response(404, NoLocation, [json |-> TRUE, at |-> node])
      [] kind = "noLocation"  -> Response(307, NoLocation, [json |-> TRUE, at |-> node])
      [] kind = "badLocation" -> Response(307, BadLocation, [json |-> TRUE, at |-> node])

\* What the remote r answers to a request for url u.
RemoteAnswer(r, u) ==
    IF u.node \in 0..r.chainLen /\ u = ChainUrl(r, u.node)
    THEN IF u.node < r.chainLen
         THEN Response(r.code, Location(r.form, u.node + 1), [json |-> FALSE, at |-> u.node])
         ELSE FinalResponse(r.final, u.node)
    ELSE FinalResponse(r.offChain, u.node)

IsRedirect(status) == status = 307 \/ status = 301 \/ status = 302

\* !res.statusCode || res.statusCode < 200 || res.statusCode >= 300
IsFailure(status) == status < 200 \/ status >= 300

Resolve(body) == [kind |-> "resolve", body |-> body, status |-> 200]
Reject(error, status) == [kind |-> error, body |-> [json |-> FALSE, at |-> -1], status |-> status]
Pending == [kind |-> "pending", body |-> [json |-> FALSE, at |-> -1], status |-> 0]

\* An HTTPS request as the remote sees it.
HttpRequest(u, method, headers, body) ==
    [url |-> u, method |-> method, headers |-> headers, body |-> body]

\* if (options.body) req.write(options.body)
FirstBody(opts) == opts.body

\* the redirected request carrying the body of a POST only
RedirectBodyPostOnly(opts) ==
    IF opts.body # "none" /\ opts.method = "POST" THEN opts.body ELSE "none"

\* if (options.body && (options.method === 'POST' || options.method === 'PUT'))
\*   redirectReq.write(options.body)
RedirectBody(opts) ==
    IF opts.body # "none" /\ (opts.method = "POST" \/ opts.method = "PUT")
    THEN opts.body ELSE "none"

\* (redirect status) && maxRedirects > 1: the redirected request is itself
\* redirected and the call recurses
RecurseOnRedirect(status, max) == IsRedirect(status) /\ max > 1

\* the url the recursive call requests:
\* this.request(newEndpoint.replace('/v1', ''), options, maxRedirects - 1)
\* with newEndpoint = redirectUrl.pathname + redirectUrl.search
RecursiveUrl(redirected) == BaseUrl(StripV1(PathOf(redirected)))

-----------------------------------------------------------------------------
(***************************************************************************)
(* What the remote holds and answers                                       *)
(***************************************************************************)

\* A Context as the remote returns it (types/convolut.cjs, ConvolutContext).
Context(id, category, favorite, tags, words) ==
    [t |-> "object", id |-> id, category |-> category,
     is_favorite |-> Bool(favorite), tags |-> Arr(tags), word_count |-> Num(words)]

ContextPool ==
    { Context(Word("c1", 2), Word("work", 4), TRUE, <<Word("x", 1), Word("y", 1)>>, 3),
      Context(Word("c2", 2), Word("other", 5), FALSE, <<Word("x", 1)>>, 4) }

\* the lists of contexts a list answer can carry
ItemSeqs == UNION { [1..n -> ContextPool] : n \in 0..MaxItems }

\* the list endpoint answering with a bare sequence
BareSequences == { Arr(s) : s \in ItemSeqs }

\* the list endpoint answering with an object: the envelope
\* {items, total_count, limit, offset} (types/convolut.cjs,
\* ContextListResponse), with or without `items`
Envelopes ==
    [t           : {"object"},
     items       : { Arr(s) : s \in ItemSeqs } \cup {Undefined},
     total_count : {Undefined, Num(0), Num(2), Num(5)},
     limit       : {Num(20)},
     offset      : {Null, Num(0), Num(1)}]

ListValues == BareSequences \cup Envelopes

\* the ways request() rejects (SpecTransport)
TransportErrors == {"ApiError", "InvalidResponse", "Timeout", "MalformedRedirect"}

\* What an awaited client call comes back with.
Json(v) == [kind |-> "json", value |-> v, error |-> "none"]
Failed(e) == [kind |-> "error", value |-> Undefined, error |-> e]
NoAnswer == [kind |-> "none", value |-> Undefined, error |-> "none"]

Failures == { Failed(e) : e \in TransportErrors }

\* what the remote returns for a request that is not a list: an object,
\* or the JSON text null
RemoteObjects ==
    { [t |-> "object", id |-> Word("r1", 2)], Null }

\* what the remote returns for POST /contexts/raw-url: the url and its
\* lifetime, an object lacking them, or null
RawUrlObjects ==
    { [t |-> "object", raw_url |-> Word("https://raw", 11), expires_in_seconds |-> Num(600)],
      [t |-> "object", raw_url |-> Word("https://raw", 11), expires_in_seconds |-> Null],
      [t |-> "object", id |-> Word("r1", 2)],
      Null }

\* a request of the Remote Operations Client, as handed to request()
HttpCall(method, route, id, query, body) ==
    [method |-> method, route |-> route, id |-> id, query |-> query, body |-> body]

NoCall == HttpCall("none", "none", Undefined, <<>>, Undefined)

\* a query-string entry; the value is the text of a JavaScript value
\* (toString(), or join(',') for tags)
Text(v) ==
    CASE v.t = "number"  -> [text |-> "digits", n |-> v.n]
      [] v.t = "boolean" -> [text |-> IF v.b THEN "true" ELSE "false"]
      [] v.t = "array"   -> [text |-> "joined", parts |-> v.items]
      [] OTHER           -> [text |-> "string", s |-> v]

Entry(key, v) == [key |-> key, value |-> Text(v)]

Opt(cond, entry) == IF cond THEN <<entry>> ELSE <<>>

\* args.<name>: undefined when the arguments object lacks the property
Arg(a, name) == IF name \in DOMAIN a THEN a[name] ELSE Undefined

(***************************************************************************)
(* Tool Results                                                            *)
(***************************************************************************)

\* error.message
Message(kind, text) == [kind |-> kind, text |-> text]

ValidationError(text) == Message("Validation", text)
TypeError == Message("TypeError", "Cannot read properties of undefined")
RangeError == Message("RangeError", "Invalid time value")
NotFound(id) == [kind |-> "NotFound", text |-> "Context with ID ${contextId} not found", id |-> id]
TransportError(e) == Message(e, "request failed")

\* { content: [{ type: 'text', text: JSON.stringify(payload, null, 2) }] }
ToolSuccess(payload) ==
    [type |-> "text", isError |-> FALSE, prefix |-> "", content |-> payload]

\* a catch block that throws the error on instead of returning it
Rethrown(prefix, message) ==
    [type |-> "raised", isError |-> TRUE, prefix |-> prefix, content |-> message]

\* { content: [{ type: 'text', text: `${prefix}${error.message}` }], isError: true }
ToolFailure(prefix, message) ==
    [type |-> "text", isError |-> TRUE, prefix |-> prefix, content |-> message]

NoResult == [type |-> "none", isError |-> FALSE, prefix |-> "", content |-> Undefined]

\* what a handler has done when it reaches its await, or returns before it
Threw(message) == [threw |-> TRUE, error |-> message, request |-> Undefined, call |-> NoCall]
Awaits(request, call) == [threw |-> FALSE, error |-> Message("none", ""), request |-> request, call |-> call]

-----------------------------------------------------------------------------
(***************************************************************************)
(* Remote Operations Client (ConvolutAPIClient)                            *)
(***************************************************************************)

\* the limit getContext and get_context_stats list with
FetchLimit == 100

\* v.length of an array or a string (0 stands for undefined: it is only
\* tested for truth)
LengthOf(v) ==
    CASE v.t = "array"  -> Len(v.items)
      [] v.t = "string" -> StrLength(v)
      [] OTHER          -> 0

\* listContexts(params): the query string of GET /contexts.  The keyword
\* filter is read from params.contain and sent as `search`.
listContexts(params) ==
    LET p(name) == Arg(params, name)
        query ==
            Opt(Truthy(p("limit")), Entry("limit", p("limit")))
         \o Opt(Truthy(p("offset")), Entry("offset", p("offset")))
         \o Opt(Truthy(p("contain")), Entry("search", p("contain")))
         \o Opt(Truthy(p("category")), Entry("category", p("category")))
         \o Opt(Truthy(p("tags")) /\ LengthOf(p("tags")) # 0, Entry("tags", p("tags")))
         \o Opt(Truthy(p("from")), Entry("from", p("from")))
         \o Opt(Truthy(p("to")), Entry("to", p("to")))
         \o Opt(p("is_favorite") # Undefined, Entry("is_favorite", p("is_favorite")))
    IN HttpCall("GET", "/contexts", Undefined, query, Undefined)

\* response.items || [], without the Array.isArray test
ItemsOrEmpty(response) == Or(Prop(response, "items"), Arr(<<>>))

\* Array.isArray(response) ? response : response.items || []
NormalizedItems(response) ==
    IF IsArray(response) THEN response ELSE Or(Prop(response, "items"), Arr(<<>>))

\* contexts.find(item => item.id === contextId)
Find(contexts, contextId) ==
    LET hits == { i \in 1..Len(contexts.items) : contexts.items[i].id = contextId } IN
    IF hits = {} THEN Undefined
    ELSE contexts.items[CHOOSE i \in hits : \A j \in hits : i <= j]

\* getContext(contextId), after its listContexts({ limit: 100 }) came back
\* with `response`: the context, or the error thrown
getContext(response, contextId) ==
    IF Unreadable(response)
    THEN [threw |-> TRUE, error |-> TypeError, value |-> Undefined]
    ELSE
    LET context == Find(NormalizedItems(response), contextId) IN
    IF ~Truthy(context)
    THEN [threw |-> TRUE, error |-> NotFound(contextId), value |-> Undefined]
    ELSE [threw |-> FALSE, error |-> Message("none", ""), value |-> context]

\* createContext(contextData): POST /contexts, body JSON.stringify(contextData)
createContext(contextData) ==
    HttpCall("POST", "/contexts", Undefined, <<>>, contextData)

\* consolidateContexts(request): POST /contexts/consolidate
consolidateContexts(request) ==
    HttpCall("POST", "/contexts/consolidate", Undefined, <<>>, request)

\* updateContext(contextId, updates): PUT /contexts/${contextId}
updateContext(contextId, updates) ==
    HttpCall("PUT", "/contexts/${contextId}", contextId, <<>>, updates)

\* deleteContext(contextId): DELETE /contexts/${contextId}
deleteContext(contextId) ==
    HttpCall("DELETE", "/contexts/${contextId}", contextId, <<>>, Undefined)

\* planFromContexts(request): POST /contexts/plan
planFromContexts(request) ==
    HttpCall("POST", "/contexts/plan", Undefined, <<>>, request)

\* exportContexts(request): POST /contexts/export
exportContexts(request) ==
    HttpCall("POST", "/contexts/export", Undefined, <<>>, request)

\* generateRawUrl(request): POST /contexts/raw-url
generateRawUrl(request) ==
    HttpCall("POST", "/contexts/raw-url", Undefined, <<>>, request)

-----------------------------------------------------------------------------
(***************************************************************************)
(* Tool handlers: tools/contexts*.cjs                                      *)
(***************************************************************************)

\* the limit list_contexts accepts, and the defaults it reports
ListLimitMin == 1
ListLimitMax == 100
ListLimitDefault == 20

\* validateContextSearch(args)
validateContextSearch(a) ==
    LET limit == Arg(a, "limit")
        offset == Arg(a, "offset")
        keep(name) == IF Truthy(Arg(a, name)) THEN Arg(a, name) ELSE Undefined
    IN
    IF limit # Undefined
       /\ (TypeOf(limit) # "number" \/ limit.n < ListLimitMin \/ limit.n > ListLimitMax)
    THEN Threw(ValidationError("limit must be a number between 1 and 100"))
    ELSE IF offset # Undefined /\ (TypeOf(offset) # "number" \/ offset.n < 0)
    THEN Threw(ValidationError("offset must be a non-negative number"))
    ELSE LET params ==
                 [limit       |-> limit,
                  offset      |-> offset,
                  contain     |-> keep("contain"),
                  category    |-> keep("category"),
                  tags        |-> IF Truthy(Arg(a, "tags")) /\ IsArray(Arg(a, "tags"))
                                  THEN Arg(a, "tags") ELSE Undefined,
                  from        |-> keep("from"),
                  to          |-> keep("to"),
                  is_favorite |-> Arg(a, "is_favorite")]
         IN Awaits(params, listContexts(params))

\* validateContextId(args)
validateContextId(a) ==
    LET id == Arg(a, "context_id") IN
    IF ~Truthy(id) \/ TypeOf(id) # "string"
    THEN Threw(ValidationError("context_id is required and must be a string"))
    ELSE Awaits([context_id |-> id], NoCall)

\* validateCreateContext(args)
validateCreateContext(a) ==
    LET title == Arg(a, "title")
        content == Arg(a, "content")
        tags == Arg(a, "tags")
        files == Arg(a, "files")
    IN
    IF ~Truthy(title) \/ TypeOf(title) # "string" \/ Trim(title).len = 0
    THEN Threw(ValidationError("title is required and must be a non-empty string"))
    ELSE IF ~Truthy(content) \/ TypeOf(content) # "string" \/ Trim(content).len = 0
    THEN Threw(ValidationError("content is required and must be a non-empty string"))
    ELSE LET data ==
                 [title       |-> Trim(title),
                  content     |-> Trim(content),
                  category    |-> Or(Arg(a, "category"), Word("other", 5)),
                  is_favorite |-> Or(Arg(a, "is_favorite"), Bool(FALSE)),
                  tags        |-> IF Truthy(tags) /\ IsArray(tags) THEN tags ELSE Undefined,
                  files       |-> IF Truthy(files) /\ IsArray(files) THEN files ELSE Undefined]
         IN Awaits(data, createContext(data))

\* handleListContexts up to its await
StartListContexts(a) == validateContextSearch(a)

\* handleListContexts of tools/contexts.cjs, once listContexts came back
\* with `response`
handleListContexts(a, params, response) ==
    LET items == Prop(response, "items")
        total == Prop(response, "total_count")
        offset == Prop(response, "offset")
    IN
    IF items.t # "array"
    THEN \* response.items.length of undefined
         ToolFailure("Error listing contexts: ", TypeError)
    ELSE ToolSuccess(
           [contexts   |-> items,
            pagination |-> [total   |-> total,
                            limit   |-> Prop(response, "limit"),
                            offset  |-> offset,
                            hasMore |-> Bool(LessThan(
                                          Num(Or(offset, Num(0)).n + Len(items.items)),
                                          total))]])

\* handleListContexts of tools/contexts-fixed.cjs, once listContexts came
\* back with `response`
handleListContextsFixed(a, params, response) ==
    IF Unreadable(response)
    THEN ToolFailure("Error listing contexts: ", TypeError)
    ELSE
    LET contexts == NormalizedItems(response)
        totalCount == IF IsArray(response) THEN Num(Len(response.items))
                      ELSE Or(Prop(response, "total_count"), Num(0))
        limit == Or(params.limit, Num(ListLimitDefault))
        offset == Or(params.offset, Num(0))
    IN
    ToolSuccess(
      [contexts   |-> contexts,
       pagination |-> [total   |-> totalCount,
                       limit   |-> limit,
                       offset  |-> offset,
                       hasMore |-> Bool(LessThan(
                                     Num(offset.n + Len(contexts.items)),
                                     totalCount))]])

\* handleGetContext up to its await: validateContextId, then getContext's
\* listContexts({ limit: 100 })
StartGetContext(a) ==
    LET v == validateContextId(a) IN
    IF v.threw THEN v
    ELSE Awaits(v.request, listContexts([limit |-> Num(FetchLimit)]))

\* handleGetContext, once the list came back with `response`
handleGetContext(a, request, response) ==
    LET got == getContext(response, request.context_id) IN
    IF got.threw
    THEN ToolFailure("Error retrieving context: ", got.error)
    ELSE ToolSuccess(got.value)

\* handleCreateContext up to its await
StartCreateContext(a) == validateCreateContext(a)

\* handleCreateContext, once createContext came back with `context`
handleCreateContext(a, contextData, context) ==
    ToolSuccess([message |-> "Context created successfully", context |-> context])

\* validateUpdateContext(updates)
validateUpdateContext(a) ==
    LET title == Arg(a, "title")
        content == Arg(a, "content")
    IN
    IF title # Undefined /\ (TypeOf(title) # "string" \/ Trim(title).len = 0)
    THEN Threw(ValidationError("title must be a non-empty string"))
    ELSE IF content # Undefined /\ (TypeOf(content) # "string" \/ Trim(content).len = 0)
    THEN Threw(ValidationError("content must be a non-empty string"))
    ELSE Awaits([title       |-> IF title # Undefined THEN Trim(title) ELSE Undefined,
                 content     |-> IF content # Undefined THEN Trim(content) ELSE Undefined,
                 category    |-> Arg(a, "category"),
                 is_favorite |-> Arg(a, "is_favorite"),
                 tags        |-> Arg(a, "tags"),
                 files       |-> Arg(a, "files")],
                NoCall)

\* handleUpdateContext up to its await: { context_id, ...updates } = args,
\* validateContextId, validateUpdateContext, apiClient.updateContext
StartUpdateContext(a) ==
    LET id == validateContextId(a)
        data == validateUpdateContext(a)
    IN
    IF id.threw THEN id
    ELSE IF data.threw THEN data
    ELSE Awaits([context_id |-> id.request.context_id, updates |-> data.request],
                updateContext(id.request.context_id, data.request))

\* handleUpdateContext, once updateContext came back with `context`
handleUpdateContext(a, request, context) ==
    ToolSuccess([message |-> "Context updated successfully", context |-> context])

\* handleDeleteContext up to its await
StartDeleteContext(a) ==
    LET id == validateContextId(a) IN
    IF id.threw THEN id
    ELSE Awaits(id.request, deleteContext(id.request.context_id))

\* handleDeleteContext, once deleteContext came back
handleDeleteContext(a, request, response) ==
    ToolSuccess([message |-> "Context deleted successfully",
                 context_id |-> request.context_id])

-----------------------------------------------------------------------------
(***************************************************************************)
(* Tool handlers: tools/ai-tools.cjs and tools/export.cjs                  *)
(***************************************************************************)

\* the number of ids consolidate_contexts accepts
ConsolidateMinIds == 2
ConsolidateMaxIds == 10

\* the limit search_contexts uses when none is given
SearchLimitDefault == 10

Summarize == Word("summarize", 9)
Compose == Word("compose", 7)

\* the id count test with both ends excluded
ContextIdsOutOfRangeStrict(n) == n <= ConsolidateMinIds \/ n >= ConsolidateMaxIds

\* args.context_ids.length < 2 || args.context_ids.length > 10
ContextIdsOutOfRange(n) == n < ConsolidateMinIds \/ n > ConsolidateMaxIds

\* validateConsolidateRequest(args)
validateConsolidateRequest(a) ==
    LET ids == Arg(a, "context_ids")
        type == Arg(a, "consolidation_type")
    IN
    IF ~Truthy(ids) \/ ~IsArray(ids)
       \/ ContextIdsOutOfRange(Len(ids.items))
    THEN Threw(ValidationError("context_ids must be an array of 2-10 context IDs"))
    ELSE IF ~Truthy(type) \/ type \notin {Summarize, Compose}
    THEN Threw(ValidationError("consolidation_type must be either \"summarize\" or \"compose\""))
    ELSE LET request ==
                 [context_ids        |-> ids,
                  consolidation_type |-> type,
                  custom_prompt      |-> IF Truthy(Arg(a, "custom_prompt"))
                                         THEN Arg(a, "custom_prompt") ELSE Undefined]
         IN Awaits(request, consolidateContexts(request))

\* handleConsolidateContexts up to its await
StartConsolidateContexts(a) == validateConsolidateRequest(a)

\* handleConsolidateContexts, once consolidateContexts came back
handleConsolidateContexts(a, request, response) ==
    ToolSuccess([message            |-> "Contexts consolidated successfully",
                 consolidation_type |-> request.consolidation_type,
                 input_contexts     |-> Num(Len(request.context_ids.items)),
                 result             |-> response])

\* handleSearchContexts up to its await: the query check, searchParams,
\* apiClient.listContexts(searchParams)
StartSearchContexts(a) ==
    LET query == Arg(a, "query")
        tags == Arg(a, "tags")
    IN
    IF ~Truthy(query) \/ TypeOf(query) # "string" \/ Trim(query).len = 0
    THEN Threw(ValidationError("query is required and must be a non-empty string"))
    ELSE LET searchParams ==
                 [search   |-> query,
                  limit    |-> Or(Arg(a, "limit"), Num(SearchLimitDefault)),
                  category |-> IF Truthy(Arg(a, "category")) THEN Arg(a, "category")
                               ELSE Undefined,
                  tags     |-> IF Truthy(tags) /\ IsArray(tags) THEN tags ELSE Undefined]
         IN Awaits(searchParams, listContexts(searchParams))

\* handleSearchContexts, once listContexts came back with `response`
handleSearchContexts(a, searchParams, response) ==
    IF Unreadable(response)
    THEN ToolFailure("Error searching contexts: ", TypeError)
    ELSE
    LET results == NormalizedItems(response) IN
    ToolSuccess([message     |-> "Context search completed",
                 query       |-> Arg(a, "query"),
                 results     |-> results,
                 total_found |-> Num(Len(results.items))])

\* handleGetContextStats up to its await
StartGetContextStats(a) ==
    Awaits([date_range |-> IF Arg(a, "date_range") = Undefined THEN Word("30d", 3)
                           ELSE Arg(a, "date_range"),
            group_by   |-> IF Arg(a, "group_by") = Undefined THEN Word("category", 8)
                           ELSE Arg(a, "group_by")],
           listContexts([limit |-> Num(FetchLimit)]))

\* items.reduce((sum, ctx) => sum + (ctx.word_count || 0), 0)
RECURSIVE TotalWords(_)
TotalWords(s) ==
    IF s = <<>> THEN 0
    ELSE Or(Prop(Head(s), "word_count"), Num(0)).n + TotalWords(Tail(s))

\* the number of positions of the sequence s that hold v
Occurrences(s, v) == Cardinality({ i \in 1..Len(s) : s[i] = v })

\* tagCounts[tag] after the forEach over the contexts of s
RECURSIVE TagCount(_, _)
TagCount(s, tag) ==
    IF s = <<>> THEN 0
    ELSE Occurrences(Head(s).tags.items, tag) + TagCount(Tail(s), tag)

\* the statistics object, as the set of its properties
Statistics(items, group_by) ==
    IF group_by = Word("category", 8)
    THEN { [key |-> c,
            count |-> Cardinality({ i \in 1..Len(items) : items[i].category = c })] :
             c \in { items[i].category : i \in 1..Len(items) } }
    ELSE IF group_by = Word("favorite", 8)
    THEN { [key |-> Word("favorites", 9),
            count |-> Cardinality({ i \in 1..Len(items) : Truthy(items[i].is_favorite) })],
           [key |-> Word("non_favorites", 13),
            count |-> Cardinality({ i \in 1..Len(items) : ~Truthy(items[i].is_favorite) })] }
    ELSE IF group_by = Word("tags", 4)
    THEN { [key |-> g, count |-> TagCount(items, g)] :
             g \in UNION { { items[i].tags.items[j] : j \in 1..Len(items[i].tags.items) } :
                           i \in 1..Len(items) } }
    ELSE {}

\* a statistics handler that keeps a count of the calls made before it
handleGetContextStatsCounting(a, request, allContexts) ==
    ToolSuccess([total_contexts |-> Prop(allContexts, "total_count"),
                 date_range     |-> request.date_range,
                 group_by       |-> request.group_by,
                 statistics     |-> {},
                 calls_so_far   |-> Num(Len(history))])

\* handleGetContextStats, once listContexts came back with `allContexts`
handleGetContextStats(a, request, allContexts) ==
    LET items == Prop(allContexts, "items") IN
    IF items.t # "array"
    THEN \* allContexts.items.reduce / .filter / .forEach of undefined
         ToolFailure("Error generating statistics: ", TypeError)
    ELSE ToolSuccess(
           [total_contexts |-> Prop(allContexts, "total_count"),
            date_range     |-> request.date_range,
            group_by       |-> request.group_by,
            statistics     |-> Statistics(items.items, request.group_by),
            total_words    |-> Num(TotalWords(items.items)),
            avg_words_per_context |->
                Num(IF Len(items.items) > 0
                    THEN RoundDiv(TotalWords(items.items), Len(items.items))
                    ELSE 0)])

\* the number of ids plan_from_contexts and export_contexts accept
PlanMinIds == 1
PlanMaxIds == 20
ExportMinIds == 1
ExportMaxIds == 100

\* validatePlanRequest(args)
validatePlanRequest(a) ==
    LET ids == Arg(a, "context_ids") IN
    IF ~Truthy(ids) \/ ~IsArray(ids)
       \/ Len(ids.items) < PlanMinIds \/ Len(ids.items) > PlanMaxIds
    THEN Threw(ValidationError("context_ids must be an array of 1-20 context IDs"))
    ELSE LET request ==
                 [context_ids     |-> ids,
                  planning_prompt |-> IF Truthy(Arg(a, "planning_prompt"))
                                      THEN Arg(a, "planning_prompt") ELSE Undefined]
         IN Awaits(request, planFromContexts(request))

\* handlePlanFromContexts, once planFromContexts came back with `result`
handlePlanFromContexts(a, request, response) ==
    ToolSuccess([message           |-> "Plan generated successfully from contexts",
                 analyzed_contexts |-> Num(Len(request.context_ids.items)),
                 result            |-> response])

ExportFormats == { Word("json", 4), Word("xml", 3), Word("txt", 3), Word("markdown", 8) }

\* validateExportRequest(args)
validateExportRequest(a) ==
    LET ids == Arg(a, "context_ids")
        format == Arg(a, "format")
    IN
    IF ~Truthy(ids) \/ ~IsArray(ids)
       \/ Len(ids.items) < ExportMinIds \/ Len(ids.items) > ExportMaxIds
    THEN Threw(ValidationError("context_ids must be an array of 1-100 context IDs"))
    ELSE IF ~Truthy(format) \/ format \notin ExportFormats
    THEN Threw(ValidationError("format must be one of: json, xml, txt, markdown"))
    ELSE LET request ==
                 [context_ids      |-> ids,
                  format           |-> format,
                  include_metadata |-> IF Arg(a, "include_metadata") # Undefined
                                       THEN Arg(a, "include_metadata") ELSE Bool(TRUE)]
         IN Awaits(request, exportContexts(request))

\* handleExportContexts, once exportContexts came back with `result`
handleExportContexts(a, request, response) ==
    ToolSuccess([message           |-> "Contexts exported successfully",
                 format            |-> request.format,
                 exported_contexts |-> Num(Len(request.context_ids.items)),
                 include_metadata  |-> request.include_metadata,
                 result            |-> response])

\* validateRawUrlRequest(args)
validateRawUrlRequest(a) ==
    LET id == Arg(a, "context_id") IN
    IF ~Truthy(id) \/ TypeOf(id) # "string"
    THEN Threw(ValidationError("context_id is required and must be a string"))
    ELSE Awaits([context_id |-> id], generateRawUrl([context_id |-> id]))

\* handleGetRawUrl, once generateRawUrl came back with `result`.
\* new Date(Date.now() + result.expires_in_seconds * 1000).toISOString()
\* throws a RangeError when the product is no number; the date is kept as
\* its distance from the clock.
handleGetRawUrl(a, request, response) ==
    LET seconds == Prop(response, "expires_in_seconds") IN
    IF Unreadable(response)
    THEN ToolFailure("Error generating raw URL: ", TypeError)
    ELSE IF seconds.t \notin {"number", "null"}
    THEN ToolFailure("Error generating raw URL: ", RangeError)
    ELSE ToolSuccess([message            |-> "Raw URL generated successfully",
                      context_id         |-> request.context_id,
                      raw_url            |-> Prop(response, "raw_url"),
                      expires_in_seconds |-> seconds,
                      expires_at         |-> [t |-> "date",
                                              fromNow |-> (IF seconds.t = "number"
                                                           THEN seconds.n ELSE 0) * 1000]])

-----------------------------------------------------------------------------
(***************************************************************************)
(* One tool invocation: toolHandler(args, apiClient)                       *)
(***************************************************************************)

\* maxLength of title in the tool's input schema
TitleMaxLength == 200

Titles ==
    { Undefined, Num(5), Word("", 0), Str(1, "", 0, 1), Word("t", 1), Str(1, "t", 1, 2),
      Word("t", TitleMaxLength), Word("t", TitleMaxLength + 1) }

Contents == { Undefined, Word("", 0), Str(2, "", 0, 0), Str(1, "body", 4, 0) }

CategoryArgs == { Undefined, Word("", 0), Word("work", 4), Word("bogus", 5) }

FavoriteArgs == { Undefined, Null, Bool(TRUE), Bool(FALSE) }

TagArgs == { Undefined, Word("x", 1), Arr(<<>>), Arr(<<Word("x", 1)>>) }

FileArgs == { Undefined, Arr(<<[t |-> "object", name |-> Word("f", 1)]>>) }

IdArgs == { Undefined, Num(7), Word("", 0), Word("c1", 2), Word("c2", 2), Word("c9", 2) }

\* context_ids: no array, or an array of n ids
IdListArgs ==
    { Undefined, Word("c1", 2) }
    \cup { Arr([i \in 1..n |-> Word("c1", 2)]) : n \in 0..(ConsolidateMaxIds + 2) }

ListArgs ==
    [limit       : { Undefined, Num(0), Num(5), Num(ListLimitMax + 1) },
     offset      : { Undefined, Num(0), Num(1), Num(-1) },
     contain     : { Undefined, Word("kw", 2) },
     category    : { Undefined, Word("work", 4), Word("bogus", 5) },
     tags        : { Undefined, Arr(<<Word("x", 1)>>) },
     is_favorite : { Undefined, Bool(FALSE) }]

GetArgs == [context_id : IdArgs]

CreateArgs ==
    [title : Titles, content : Contents, category : CategoryArgs,
     is_favorite : FavoriteArgs, tags : TagArgs, files : FileArgs]

ConsolidateArgs ==
    [context_ids        : IdListArgs,
     consolidation_type : { Undefined, Summarize, Compose, Word("merge", 5) },
     custom_prompt      : { Undefined, Word("p", 1) }]

SearchArgs ==
    [query    : { Undefined, Num(3), Word("", 0), Str(1, "", 0, 1), Word("kw", 2) },
     limit    : { Undefined, Num(0), Num(5), Num(51) },
     category : { Undefined, Word("work", 4) },
     tags     : { Undefined, Arr(<<Word("x", 1)>>) }]

StatsArgs ==
    [date_range : { Undefined, Word("7d", 2) },
     group_by   : { Undefined, Word("category", 8), Word("favorite", 8),
                    Word("tags", 4), Word("date", 4) }]

UpdateArgs ==
    [context_id  : { Undefined, Num(7), Word("c1", 2) },
     title       : { Undefined, Num(5), Str(1, "", 0, 1), Str(1, "t", 1, 2) },
     content     : { Undefined, Str(2, "", 0, 0), Str(1, "body", 4, 0) },
     category    : { Undefined, Word("work", 4) },
     is_favorite : { Undefined, Bool(FALSE) },
     tags        : { Undefined, Arr(<<Word("x", 1)>>) },
     files       : { Undefined }]

DeleteArgs == [context_id : IdArgs]

PlanArgs ==
    [context_ids     : { Undefined, Word("c1", 2) }
                       \cup { Arr([i \in 1..n |-> Word("c1", 2)]) :
                                n \in {0, PlanMinIds, PlanMaxIds, PlanMaxIds + 1} },
     planning_prompt : { Undefined, Word("", 0), Word("p", 1) }]

ExportArgs ==
    [context_ids      : { Undefined, Word("c1", 2) }
                        \cup { Arr([i \in 1..n |-> Word("c1", 2)]) :
                                 n \in {0, ExportMinIds, ExportMaxIds, ExportMaxIds + 1} },
     format           : { Undefined, Word("json", 4), Word("markdown", 8), Word("csv", 3) },
     include_metadata : { Undefined, Bool(FALSE) }]

RawUrlArgs == [context_id : IdArgs]

\* the tools whose handlers are modelled: every key of TOOL_HANDLERS
ModelledTools ==
    { "list_contexts", "get_context", "create_context", "update_context",
      "delete_context", "search_contexts", "consolidate_contexts",
      "plan_from_contexts", "export_contexts", "get_raw_url", "get_context_stats" }

\* the tools that surface the remote's list
ListTools == { "list_contexts", "get_context", "search_contexts", "get_context_stats" }

ArgsOf(t) ==
    CASE t = "list_contexts"        -> ListArgs
      [] t = "get_context"          -> GetArgs
      [] t = "create_context"       -> CreateArgs
      [] t = "update_context"       -> UpdateArgs
      [] t = "delete_context"       -> DeleteArgs
      [] t = "search_contexts"      -> SearchArgs
      [] t = "consolidate_contexts" -> ConsolidateArgs
      [] t = "plan_from_contexts"   -> PlanArgs
      [] t = "export_contexts"      -> ExportArgs
      [] t = "get_raw_url"          -> RawUrlArgs
      [] t = "get_context_stats"    -> StatsArgs

\* the modules a tool's handler can be loaded from: handleListContexts
\* differs between tools/contexts.cjs and tools/contexts-fixed.cjs (the
\* other handlers of the two modules are the same text)
ModulesOf(t) ==
    CASE t = "list_contexts" -> { "tools/contexts.cjs", "tools/contexts-fixed.cjs" }
      [] t \in { "get_context", "create_context", "update_context", "delete_context" } ->
             { "tools/contexts-fixed.cjs" }
      [] t \in { "search_contexts", "consolidate_contexts", "plan_from_contexts" } ->
             { "tools/ai-tools.cjs" }
      [] OTHER -> { "tools/export.cjs" }

\* what the awaited client call of a tool can come back with
AnswersOf(t) ==
    IF t \in ListTools
    THEN { Json(v) : v \in ListValues \cup {Null} } \cup Failures
    ELSE IF t = "get_raw_url"
    THEN { Json(v) : v \in RawUrlObjects } \cup Failures
    ELSE { Json(v) : v \in RemoteObjects } \cup Failures

\* the text a handler's catch block puts before error.message
ErrorPrefix(t) ==
    CASE t = "list_contexts"        -> "Error listing contexts: "
      [] t = "get_context"          -> "Error retrieving context: "
      [] t = "create_context"       -> "Error creating context: "
      [] t = "update_context"       -> "Error updating context: "
      [] t = "delete_context"       -> "Error deleting context: "
      [] t = "search_contexts"      -> "Error searching contexts: "
      [] t = "consolidate_contexts" -> "Error consolidating contexts: "
      [] t = "plan_from_contexts"   -> "Error generating plan: "
      [] t = "export_contexts"      -> "Error exporting contexts: "
      [] t = "get_raw_url"          -> "Error generating raw URL: "
      [] t = "get_context_stats"    -> "Error generating statistics: "

\* a handler from its call to its await (or to the throw before it)
HandlerStart(t, a) ==
    CASE t = "list_contexts"        -> StartListContexts(a)
      [] t = "get_context"          -> StartGetContext(a)
      [] t = "create_context"       -> StartCreateContext(a)
      [] t = "update_context"       -> StartUpdateContext(a)
      [] t = "delete_context"       -> StartDeleteContext(a)
      [] t = "search_contexts"      -> StartSearchContexts(a)
      [] t = "consolidate_contexts" -> StartConsolidateContexts(a)
      [] t = "plan_from_contexts"   -> validatePlanRequest(a)
      [] t = "export_contexts"      -> validateExportRequest(a)
      [] t = "get_raw_url"          -> validateRawUrlRequest(a)
      [] t = "get_context_stats"    -> StartGetContextStats(a)

\* a handler from its await to its return: the catch block when the client
\* call rejected, the rest of the try block when it resolved
HandlerReturn(t, m, a, ans) ==
    LET request == HandlerStart(t, a).request IN
    IF ans.kind = "error"
    THEN ToolFailure(ErrorPrefix(t), TransportError(ans.error))
    ELSE CASE t = "list_contexts" ->
                IF m = "tools/contexts.cjs"
                THEN handleListContexts(a, request, ans.value)
                ELSE handleListContextsFixed(a, request, ans.value)
           [] t = "get_context"          -> handleGetContext(a, request, ans.value)
           [] t = "create_context"       -> handleCreateContext(a, request, ans.value)
           [] t = "update_context"       -> handleUpdateContext(a, request, ans.value)
           [] t = "delete_context"       -> handleDeleteContext(a, request, ans.value)
           [] t = "search_contexts"      -> handleSearchContexts(a, request, ans.value)
           [] t = "consolidate_contexts" -> handleConsolidateContexts(a, request, ans.value)
           [] t = "plan_from_contexts"   -> handlePlanFromContexts(a, request, ans.value)
           [] t = "export_contexts"      -> handleExportContexts(a, request, ans.value)
           [] t = "get_raw_url"          -> handleGetRawUrl(a, request, ans.value)
           [] t = "get_context_stats"    -> handleGetContextStats(a, request, ans.value)

ToolIdle ==
    /\ tool = "none"
    /\ impl = "none"
    /\ args = [none |-> Undefined]
    /\ hpc = "idle"
    /\ calls = <<>>
    /\ answer = NoAnswer
    /\ result = NoResult

\* the handler is called and runs to its await, or throws before it and
\* returns the error from its catch block
Invoke(t, m, a) ==
    /\ hpc = "idle"
    /\ tool' = t
    /\ impl' = m
    /\ args' = a
    /\ answer' = NoAnswer
    /\ LET s == HandlerStart(t, a) IN
       IF s.threw
       THEN /\ calls' = <<>>
            /\ result' = ToolFailure(ErrorPrefix(t), s.error)
            /\ hpc' = "returned"
       ELSE /\ calls' = <<s.call>>
            /\ result' = NoResult
            /\ hpc' = "awaiting"
    /\ UNCHANGED <<transportVars, dispatchVars, seriesVars>>

\* a handler that issues its client call once more when it failed
SettleRetrying(ans) ==
    /\ hpc = "awaiting"
    /\ answer' = ans
    /\ result' = HandlerReturn(tool, impl, args, ans)
    /\ hpc' = "returned"
    /\ calls' = IF ans.kind = "error" THEN calls \o calls ELSE calls
    /\ UNCHANGED <<tool, impl, args>>
    /\ UNCHANGED <<transportVars, dispatchVars, seriesVars>>

\* the awaited client call settles and the handler returns
Settle(ans) ==
    /\ hpc = "awaiting"
    /\ answer' = ans
    /\ result' = HandlerReturn(tool, impl, args, ans)
    /\ hpc' = "returned"
    /\ UNCHANGED <<tool, impl, args, calls>>
    /\ UNCHANGED <<transportVars, dispatchVars, seriesVars>>

-----------------------------------------------------------------------------
(***************************************************************************)
(* The dispatch loop: stdio-client.cjs                                     *)
(***************************************************************************)

\* the keys of TOOL_HANDLERS
RegisteredTools ==
    { "list_contexts", "get_context", "create_context", "update_context",
      "delete_context", "search_contexts", "consolidate_contexts",
      "plan_from_contexts", "export_contexts", "get_raw_url", "get_context_stats" }

\* properties TOOL_HANDLERS, an object literal, inherits from Object.prototype
InheritedProperties == { "constructor", "toString", "valueOf", "hasOwnProperty", "__proto__" }

\* TOOL_HANDLERS[toolName]: an own property, an inherited one, or undefined
TOOL_HANDLERS(toolName) ==
    IF toolName.w \in RegisteredTools THEN [t |-> "function", own |-> TRUE, name |-> toolName.w]
    ELSE IF toolName.w \in InheritedProperties
    THEN [t |-> IF toolName.w = "__proto__" THEN "object" ELSE "function",
          own |-> FALSE, name |-> toolName.w]
    ELSE Undefined

\* {} : an object without properties
EmptyObject == [t |-> "object"]

\* the module stdio-client.cjs requires a tool's handler from
LoadedModule(t) ==
    CASE t \in { "list_contexts", "get_context", "create_context",
                 "update_context", "delete_context" } -> "tools/contexts.cjs"
      [] t \in { "search_contexts", "consolidate_contexts", "plan_from_contexts" } ->
             "tools/ai-tools.cjs"
      [] OTHER -> "tools/export.cjs"

\* One input line: its text, and what JSON.parse makes of it.  kind:
\* "blank" (empty or blanks only), "malformed" (JSON.parse throws), "scalar"
\* (JSON that is no object: 5, "x", null) or "envelope" (a JSON object; a
\* property that is absent reads undefined).
EmptyLine ==
    [kind |-> "blank", text |-> Word("", 0),
     id |-> Undefined, method |-> "none", params |-> Undefined]
BlankLine ==
    [kind |-> "blank", text |-> Str(2, "", 0, 1),
     id |-> Undefined, method |-> "none", params |-> Undefined]
MalformedLine ==
    [kind |-> "malformed", text |-> Str(1, "{oops", 5, 0),
     id |-> Undefined, method |-> "none", params |-> Undefined]
ScalarLine ==
    [kind |-> "scalar", text |-> Word("5", 1),
     id |-> Undefined, method |-> "none", params |-> Undefined]
Envelope(id, method, params) ==
    [kind |-> "envelope", text |-> Word("{...}", 5),
     id |-> id, method |-> method, params |-> params]

\* !line: the test without the trim
IsEmptyLine(l) == ~Truthy(l.text)

\* !line.trim()
IsBlank(l) == ~Truthy(Trim(l.text))

\* JSON.parse(line) throws: the text is no JSON (blanks alone are none)
ParseThrows(l) == l.kind \in {"blank", "malformed"}

\* the ids of the envelopes: none, 1, 2
Ids == { Undefined, Num(1), Num(2) }

\* the ids of the envelopes that are no tools/call
PlainIds == { Undefined, Num(1) }

Methods ==
    { "initialize", "notifications/initialized", "tools/list", "resources/list",
      "ping", "bogus/method" }

\* params of a tools/call
Params(name, arguments) == [t |-> "object", name |-> name, arguments |-> arguments]

\* the tools/call params of the input: params absent, name absent or empty,
\* registered tools with and without arguments, names that are no tool
CallParams ==
    { Undefined,
      Params(Undefined, Undefined),
      Params(Word("", 0), Undefined),
      Params(Word("get_context", 11), Undefined),
      Params(Word("get_context", 11), [t |-> "object", context_id |-> Word("c1", 2)]),
      Params(Word("create_context", 14),
             [t |-> "object", title |-> Word("t", 1), content |-> Str(1, "body", 4, 0)]),
      Params(Word("frobnicate", 10), EmptyObject),
      Params(Word("constructor", 11), EmptyObject),
      Params(Word("toString", 8), EmptyObject),
      Params(Word("valueOf", 7), EmptyObject) }

Lines ==
    { EmptyLine, BlankLine, MalformedLine, ScalarLine }
    \cup { Envelope(id, m, Undefined) : id \in PlainIds, m \in Methods }
    \cup { Envelope(id, "tools/call", p) : id \in Ids, p \in CallParams }

\* what the remote answers to a call the dispatch loop's handlers issue
DispatchAnswers(t) ==
    IF t = "get_context"
    THEN { Json([t |-> "object",
                 items |-> Arr(<<Context(Word("c1", 2), Word("work", 4), TRUE, <<>>, 3)>>),
                 total_count |-> Num(1), limit |-> Num(100), offset |-> Num(0)]),
           Json([t |-> "object", items |-> Arr(<<>>),
                 total_count |-> Num(0), limit |-> Num(100), offset |-> Num(0)]),
           Failed("Timeout") }
    ELSE { Json([t |-> "object", id |-> Word("r1", 2)]), Failed("ApiError") }

\* a response object, as JSON.stringify writes it: a property whose value
\* is undefined is left out
Reply(id, res) == [jsonrpc |-> "2.0", id |-> id, result |-> res, error |-> Undefined]
ErrorReply(id, code, message) ==
    [jsonrpc |-> "2.0", id |-> id, result |-> Undefined,
     error |-> [code |-> code, message |-> message]]

\* error.message: its fixed text, and the tool name or the method it quotes
ErrorMessage(text, name, method) == [text |-> text, name |-> name, method |-> method]

ParseError == -32700
InvalidParams == -32602
NotFoundCode == -32601
InternalError == -32603

\* a requestId that is null whatever the request holds
NullId(request) == Null

\* 'id' in request ? request.id : null
RequestId(request) == IF request.id # Undefined THEN request.id ELSE Null

\* the catch block's response with the internal-error code in place of
\* the parse-error code
ParseFailureInternal ==
    ErrorReply(Null, InternalError,
               ErrorMessage("Parse error: ${error.message}", Undefined, "none"))

\* the line handler's catch block: JSON.parse threw
ParseFailure ==
    ErrorReply(Null, ParseError,
               ErrorMessage("Parse error: ${error.message}", Undefined, "none"))

\* the fixed results
InitializeResult ==
    [protocolVersion |-> "2024-11-05",
     capabilities |-> {"tools", "logging", "experimental"},
     serverInfo |-> [name |-> "convolut-mcp-server", version |-> "1.0.0"]]
ToolsListResult == [tools |-> RegisteredTools]
ResourcesListResult == [resources |-> <<>>]
PingResult == [status |-> "ok"]

\* How handleMCPRequest(request) goes, up to its return or to the await of
\* a remote call.  ticks is the number of microtask turns between the 'line'
\* event and the console.log of the response: one for the await in the line
\* handler, one more when handleMCPRequest itself awaited a settled value.
Returns(response, ticks) ==
    [kind |-> "return", response |-> response, ticks |-> ticks,
     tool |-> "none", args |-> Undefined, call |-> NoCall]
ReturnsNull ==
    [kind |-> "null", response |-> Undefined, ticks |-> 1,
     tool |-> "none", args |-> Undefined, call |-> NoCall]
Invokes(t, a, response, ticks) ==
    [kind |-> "return", response |-> response, ticks |-> ticks,
     tool |-> t, args |-> a, call |-> NoCall]
AwaitsRemote(t, a, call) ==
    [kind |-> "await", response |-> Undefined, ticks |-> 0,
     tool |-> t, args |-> a, call |-> call]

\* toolHandler(args, apiClient) where toolHandler is inherited from
\* Object.prototype: Object(args) is args, toString() of no receiver is a
\* string, valueOf and hasOwnProperty throw for want of a receiver, and
\* __proto__ is no function
CallInherited(requestId, name, a) ==
    CASE name = "constructor" -> Returns(Reply(requestId, a), 2)
      [] name = "toString"    -> Returns(Reply(requestId, Word("[object Undefined]", 18)), 2)
      [] OTHER -> Returns(ErrorReply(requestId, InternalError,
                                     ErrorMessage("TypeError", Undefined, "none")), 1)

\* the answer to a tools/call without a name, as a tool that is not found
MissingToolNameNotFound(requestId) ==
    ErrorReply(requestId, NotFoundCode, ErrorMessage("Missing tool name", Undefined, "none"))

\* if (!request.params?.name): the answer to a tools/call without a name
MissingToolName(requestId) ==
    ErrorReply(requestId, InvalidParams, ErrorMessage("Missing tool name", Undefined, "none"))

\* case 'tools/call'
ToolsCall(request) ==
    LET requestId == RequestId(request)
        name == Prop(request.params, "name")
    IN
    IF ~Truthy(name)
    THEN Returns(MissingToolName(requestId), 1)
    ELSE LET toolHandler == TOOL_HANDLERS(name)
             a == Or(Prop(request.params, "arguments"), EmptyObject)
         IN
         IF ~Truthy(toolHandler)
         THEN Returns(ErrorReply(requestId, NotFoundCode,
                                 ErrorMessage("Tool not found: ${toolName}", name, "none")), 1)
         ELSE IF ~toolHandler.own
         THEN CallInherited(requestId, toolHandler.name, a)
         ELSE LET s == HandlerStart(toolHandler.name, a) IN
              IF s.threw
              THEN Invokes(toolHandler.name, a,
                           Reply(requestId,
                                 ToolFailure(ErrorPrefix(toolHandler.name), s.error)), 2)
              ELSE AwaitsRemote(toolHandler.name, a, s.call)

\* a handleMCPRequest that remembers whether initialize was received and
\* refuses every request before it
handleMCPRequestInitialized(request) ==
    IF \E i \in 1..Len(log) : log[i].method = "initialize"
    THEN Returns(Reply(RequestId(request), PingResult), 1)
    ELSE Returns(ErrorReply(RequestId(request), InternalError,
                            ErrorMessage("Server not initialized", Undefined, "none")), 1)

\* handleMCPRequest(request)
handleMCPRequest(request) ==
    IF request.kind = "scalar"
    THEN Returns(ErrorReply(Null, ParseError,
                            ErrorMessage("Invalid request object", Undefined, "none")), 1)
    ELSE LET requestId == RequestId(request) IN
         CASE request.method = "initialize" -> Returns(Reply(requestId, InitializeResult), 1)
           [] request.method = "notifications/initialized" -> ReturnsNull
           [] request.method = "tools/list" -> Returns(Reply(requestId, ToolsListResult), 1)
           [] request.method = "resources/list" ->
                  Returns(Reply(requestId, ResourcesListResult), 1)
           [] request.method = "tools/call" -> ToolsCall(request)
           [] request.method = "ping" -> Returns(Reply(requestId, PingResult), 1)
           [] OTHER ->
                  Returns(ErrorReply(requestId, NotFoundCode,
                                     ErrorMessage("Method not found: ${request.method}",
                                                  Undefined, request.method)), 1)

\* no series of calls is under way
SeriesIdle ==
    /\ dataset = Null
    /\ history = <<>>

\* the dispatch loop has read nothing
DispatchIdle ==
    /\ log = <<>>
    /\ micro = <<>>
    /\ pending = {}
    /\ output = <<>>
    /\ invoked = <<>>
    /\ proc = [state |-> "running", code |-> 0]


-----------------------------------------------------------------------------
(* The transport, one call of request() *)

TransportIdle ==
    /\ options = [method |-> "GET", body |-> "none"]
    /\ maxRedirects = DefaultMaxRedirects
    /\ url = Url(ApiHost, TRUE, 0)
    /\ redirectUrl = Url(ApiHost, TRUE, 0)
    /\ tpc = "idle"
    /\ sent = <<>>
    /\ outcome = Pending

InitTransport ==
    /\ remote \in Remotes
    /\ TransportIdle
    /\ ToolIdle
    /\ DispatchIdle
    /\ SeriesIdle

\* request(endpoint, options): build requestOptions, https.request, write
\* the body, end.
Request(opts) ==
    /\ tpc = "idle"
    /\ options' = opts
    /\ maxRedirects' = DefaultMaxRedirects
    /\ url' = BaseUrl([v1 |-> FALSE, node |-> 0])
    /\ sent' = <<HttpRequest(url', opts.method, RequestHeaders, FirstBody(opts))>>
    /\ tpc' = "req"
    /\ UNCHANGED <<remote, redirectUrl, outcome>>
    /\ UNCHANGED <<toolVars, dispatchVars, seriesVars>>

\* res.on('end') of the first request of the current call.
ResponseEnd ==
    /\ tpc = "req"
    /\ LET res == RemoteAnswer(remote, url) IN
       IF IsRedirect(res.status)
       THEN IF maxRedirects <= 0
            THEN /\ outcome' = Reject("TooManyRedirects", res.status)
                 /\ tpc' = "done"
                 /\ UNCHANGED <<redirectUrl, sent>>
            ELSE IF res.location = NoLocation
            THEN /\ outcome' = Reject("MalformedRedirect", res.status)
                 /\ tpc' = "done"
                 /\ UNCHANGED <<redirectUrl, sent>>
            ELSE IF res.location = BadLocation
            THEN \* new URL(location) throws inside the try block
                 /\ outcome' = Reject("InvalidResponse", res.status)
                 /\ tpc' = "done"
                 /\ UNCHANGED <<redirectUrl, sent>>
            ELSE /\ redirectUrl' = ResolveLocation(res.location, url)
                 /\ sent' = Append(sent, HttpRequest(redirectUrl', options.method,
                                                     RequestHeaders, RedirectBody(options)))
                 /\ tpc' = "redirectReq"
                 /\ UNCHANGED outcome
       ELSE /\ outcome' = IF IsFailure(res.status) THEN Reject("ApiError", res.status)
                          ELSE IF res.body.json THEN Resolve(res.body)
                          ELSE Reject("InvalidResponse", res.status)
            /\ tpc' = "done"
            /\ UNCHANGED <<redirectUrl, sent>>
    /\ UNCHANGED <<remote, options, maxRedirects, url>>
    /\ UNCHANGED <<toolVars, dispatchVars, seriesVars>>

\* redirectRes.on('end') of the redirected request of the current call.
RedirectResponseEnd ==
    /\ tpc = "redirectReq"
    /\ LET res == RemoteAnswer(remote, redirectUrl) IN
       IF RecurseOnRedirect(res.status, maxRedirects)
       THEN /\ url' = RecursiveUrl(redirectUrl)
            /\ maxRedirects' = maxRedirects - 1
            /\ sent' = Append(sent, HttpRequest(url', options.method,
                                                RequestHeaders, FirstBody(options)))
            /\ tpc' = "req"
            /\ UNCHANGED outcome
       ELSE /\ outcome' = IF IsFailure(res.status) THEN Reject("ApiError", res.status)
                          ELSE IF res.body.json THEN Resolve(res.body)
                          ELSE Reject("InvalidResponse", res.status)
            /\ tpc' = "done"
            /\ UNCHANGED <<url, maxRedirects, sent>>
    /\ UNCHANGED <<remote, options, redirectUrl>>
    /\ UNCHANGED <<toolVars, dispatchVars, seriesVars>>

\* req.setTimeout / redirectReq.setTimeout fire, or the socket errors:
\* the request in flight is destroyed and the promise rejected.
RequestTimeout ==
    /\ tpc \in {"req", "redirectReq"}
    /\ outcome' = Reject("Timeout", 0)
    /\ tpc' = "done"
    /\ UNCHANGED <<remote, options, maxRedirects, url, redirectUrl, sent>>
    /\ UNCHANGED <<toolVars, dispatchVars, seriesVars>>

NextTransport ==
    \/ \E opts \in ClientOptions : Request(opts)
    \/ ResponseEnd
    \/ RedirectResponseEnd
    \/ RequestTimeout

SpecTransport == InitTransport /\ [][NextTransport]_vars

-----------------------------------------------------------------------------
(* The tool handlers, one invocation *)

InitTools ==
    /\ remote = [chainLen |-> 0, code |-> 307, form |-> "relV1",
                 final |-> "ok", offChain |-> "apiError"]
    /\ TransportIdle
    /\ ToolIdle
    /\ DispatchIdle
    /\ SeriesIdle

NextTools ==
    \/ /\ hpc = "idle"
       /\ \E t \in ModelledTools : \E m \in ModulesOf(t) : \E a \in ArgsOf(t) : Invoke(t, m, a)
    \/ /\ hpc = "awaiting"
       /\ \E ans \in AnswersOf(tool) : Settle(ans)

SpecTools == InitTools /\ [][NextTools]_vars

-----------------------------------------------------------------------------
(* A series of tool calls against an unchanged remote dataset *)

\* the datasets of a series: what GET /contexts answers throughout
Datasets ==
    BareSequences
    \cup { e \in Envelopes : e.total_count = Num(2) /\ e.offset = Num(0) }

\* the get_context_stats calls of a series
SeriesStatsArgs == { a \in StatsArgs : a.date_range = Undefined }

\* the calls of a series that read the dataset and leave it as it is
SeriesReadArgs == { a \in GetArgs : a.context_id \in { Word("c1", 2), Word("c9", 2) } }

InitSeries ==
    /\ remote = [chainLen |-> 0, code |-> 307, form |-> "relV1",
                 final |-> "ok", offChain |-> "apiError"]
    /\ TransportIdle
    /\ ToolIdle
    /\ DispatchIdle
    /\ dataset \in Datasets
    /\ history = <<>>

\* the caller takes the Tool Result of the handler that returned
Finish ==
    /\ hpc = "returned"
    /\ history' = Append(history, [tool |-> tool, args |-> args,
                                    answer |-> answer, result |-> result])
    /\ tool' = "none"
    /\ impl' = "none"
    /\ args' = [none |-> Undefined]
    /\ hpc' = "idle"
    /\ calls' = <<>>
    /\ answer' = NoAnswer
    /\ result' = NoResult
    /\ UNCHANGED dataset
    /\ UNCHANGED <<transportVars, dispatchVars>>

NextSeries ==
    \/ /\ hpc = "idle"
       /\ Len(history) < MaxCalls
       /\ \/ \E a \in SeriesStatsArgs : Invoke("get_context_stats", "tools/export.cjs", a)
          \/ \E a \in SeriesReadArgs : Invoke("get_context", "tools/contexts-fixed.cjs", a)
    \/ /\ hpc = "awaiting"
       /\ \/ Settle(Json(dataset))
          \/ tool = "get_context_stats" /\ Settle(Failed("Timeout"))
    \/ Finish

SpecSeries == InitSeries /\ [][NextSeries]_vars

-----------------------------------------------------------------------------
(* The dispatch loop, line by line *)

\* the line handler's entry for the n-th line in one of the queues
Job(n, request, h) ==
    [of |-> n, id |-> RequestId(request), ticks |-> h.ticks, text |-> h.response,
     tool |-> h.tool, args |-> h.args]

\* a response written as the answer to the first line, whichever line it
\* belongs to
WrittenFirst(n, response) == [of |-> 1, text |-> response]

\* console.log(JSON.stringify(response)) for the line it answers
Written(n, response) == [of |-> n, text |-> response]

\* rl.on('line', ...): the part of the handler that runs in the event.  A
\* blank line returns; a line JSON.parse rejects is answered in the catch
\* block at once; otherwise handleMCPRequest runs up to its first await
\* and the rest waits for the microtask queue or for the remote.
Line(l) ==
    /\ proc.state = "running"
    /\ Len(log) < MaxLines
    /\ log' = Append(log, l)
    /\ LET n == Len(log) + 1 IN
       IF IsBlank(l)
       THEN UNCHANGED <<micro, pending, output, invoked>>
       ELSE IF ParseThrows(l)
       THEN /\ output' = Append(output, Written(n, ParseFailure))
            /\ UNCHANGED <<micro, pending, invoked>>
       ELSE LET h == handleMCPRequest(l) IN
            /\ micro' = IF h.kind = "return" THEN Append(micro, Job(n, l, h)) ELSE micro
            /\ pending' = IF h.kind = "await" THEN pending \cup {Job(n, l, h)} ELSE pending
            /\ invoked' = IF h.tool # "none"
                          THEN Append(invoked, [of |-> n, tool |-> h.tool, call |-> h.call])
                          ELSE invoked
            /\ UNCHANGED output
    /\ UNCHANGED proc
    /\ UNCHANGED <<transportVars, toolVars, seriesVars>>

\* the jobs of q that resume in the k-th microtask turn, as written lines
Resumed(q, k) ==
    LET at == SelectSeq(q, LAMBDA j : j.ticks = k) IN
    [i \in 1..Len(at) |-> Written(at[i].of, at[i].text)]

\* the microtask queue runs empty: `if (response) console.log(...)` of
\* every line handler that awaits a settled handleMCPRequest, in the order
\* the continuations come up
Drain ==
    /\ proc.state = "running"
    /\ micro # <<>>
    /\ output' = output \o Resumed(micro, 1) \o Resumed(micro, 2)
    /\ micro' = <<>>
    /\ UNCHANGED <<log, pending, invoked, proc>>
    /\ UNCHANGED <<transportVars, toolVars, seriesVars>>

\* the remote call of a pending tools/call settles: the handler returns
\* its Tool Result, handleMCPRequest wraps it, the line handler writes it
Complete(job, ans) ==
    /\ proc.state = "running"
    /\ micro = <<>>
    /\ job \in pending
    /\ pending' = pending \ {job}
    /\ output' = Append(output,
                        Written(job.of,
                                Reply(job.id, HandlerReturn(job.tool, LoadedModule(job.tool),
                                                            job.args, ans))))
    /\ UNCHANGED <<log, micro, invoked, proc>>
    /\ UNCHANGED <<transportVars, toolVars, seriesVars>>

\* the process killed by the signal, with no handler run: exit code 128 + 2
Kill ==
    /\ proc.state = "running"
    /\ micro = <<>>
    /\ proc' = [state |-> "exited", code |-> 130]
    /\ UNCHANGED <<log, micro, pending, output, invoked>>
    /\ UNCHANGED <<transportVars, toolVars, seriesVars>>

\* rl.on('close', ...): process.exit(0)
Close ==
    /\ proc.state = "running"
    /\ micro = <<>>
    /\ proc' = [state |-> "exited", code |-> 0]
    /\ UNCHANGED <<log, micro, pending, output, invoked>>
    /\ UNCHANGED <<transportVars, toolVars, seriesVars>>

\* the input stream ends: readline closes
StdinEnd == Close

\* process.on('SIGINT', ...): rl.close()
Sigint == Close

\* process.on('SIGTERM', ...): rl.close()
Sigterm == Close

Init ==
    /\ remote = [chainLen |-> 0, code |-> 307, form |-> "relV1",
                 final |-> "ok", offChain |-> "apiError"]
    /\ TransportIdle
    /\ ToolIdle
    /\ DispatchIdle
    /\ SeriesIdle

Next ==
    \/ \E l \in Lines : Line(l)
    \/ Drain
    \/ \E job \in pending : \E ans \in DispatchAnswers(job.tool) : Complete(job, ans)
    \/ StdinEnd
    \/ Sigint
    \/ Sigterm

Spec == Init /\ [][Next]_vars

\* The dispatch loop while the process is not shut down: the microtask
\* queue is run to its end after every event, and every HTTPS call ends,
\* with an answer, an error or the timeout of request().
NextRunning ==
    \/ \E l \in Lines : Line(l)
    \/ Drain
    \/ \E job \in pending : \E ans \in DispatchAnswers(job.tool) : Complete(job, ans)

SpecRunning ==
    /\ Init
    /\ [][NextRunning]_vars
    /\ WF_vars(Drain)
    /\ WF_vars(\E job \in pending : \E ans \in DispatchAnswers(job.tool) : Complete(job, ans))

-----------------------------------------------------------------------------
(***************************************************************************)
(* Properties of the transport (SpecTransport)                             *)
(***************************************************************************)

\* the call has settled and no request of it timed out
Settled == tpc = "done" /\ outcome.kind # "Timeout"

\* every Location of the chain stays under https://api.convolut.app/v1
UnderBase == remote.form \in {"relV1", "absV1"}

\* C3: with the default bound of 5, a chain of 6 consecutive redirects
\* (each with a Location header) makes the call fail with the
\* too-many-redirects error, not with an ApiError for the redirect status
\* and not with success; a chain of at most 5 redirects that ends in a 2xx
\* JSON body succeeds.
C3_RedirectBound ==
    (Settled /\ UnderBase) =>
        /\ remote.chainLen = 6 => outcome.kind = "TooManyRedirects"
        /\ (remote.chainLen <= 5 /\ remote.final = "ok") => outcome.kind = "resolve"

\* the url the Location header of the first answer names: its own host
\* when it is absolute, the original host when it is relative
C4_Target ==
    LET location == Location(remote.form, 1) IN
    [host |-> IF location.absolute THEN location.host ELSE ApiHost,
     v1   |-> location.v1,
     node |-> location.node]

C28_OneRequestPerHop ==
    (Settled /\ UnderBase /\ remote.final = "ok"
       /\ remote.chainLen >= 1 /\ remote.chainLen <= 5) =>
        /\ Len(sent) = remote.chainLen + 1
        /\ \A i \in 1..Len(sent) : sent[i].url = ChainUrl(remote, i - 1)
        /\ \A i \in 1..Len(sent) : \A j \in 1..Len(sent) :
               sent[i].url = sent[j].url => i = j

-----------------------------------------------------------------------------
(***************************************************************************)
(* Properties of the tool handlers (SpecTools)                             *)
(***************************************************************************)

\* the invocation is of tool t and the handler has been called
Called(t) == tool = t /\ hpc # "idle"

\* the handler of tool t returned after the remote answered with JSON
Answered(t) == tool = t /\ hpc = "returned" /\ answer.kind = "json"

\* the handler of tool t returned after the remote answered its list call
\* with a list: a bare sequence or an object
Listed(t) == Answered(t) /\ answer.value.t \in {"array", "object"}

\* v is missing, not a string, empty or blank
C5_Blank(v) ==
    \/ v.t # "string"
    \/ v.lead + v.len + v.trail = 0
    \/ v.len = 0

\* the title or the content of the arguments is one create_context must reject
C5_Invalid ==
    \/ C5_Blank(args.title)
    \/ args.title.lead + args.title.len + args.title.trail > 200
    \/ C5_Blank(args.content)

\* C5: create_context rejects, with an error-flagged Tool Result and
\* without any remote call, every input whose title is missing, not a
\* string, empty, blank or longer than 200 characters, and every input
\* whose content is missing, not a string, empty or blank.
C5_CreateRejectsInvalid ==
    (Called("create_context") /\ C5_Invalid) =>
        /\ hpc = "returned"
        /\ result.isError
        /\ calls = <<>>

\* the text of v without its surrounding blanks
C6_Trimmed(v) == [t |-> "string", lead |-> 0, w |-> v.w, len |-> v.len, trail |-> 0]

\* the payload carries v under `field` when v is an array, and nothing otherwise
C6_OnlyArray(body, field, v) ==
    IF v.t = "array" THEN body[field] = v ELSE body[field] = [t |-> "undefined"]

\* the request create_context sent is one POST /contexts
C6_Posted ==
    /\ Len(calls) = 1
    /\ calls[1].method = "POST"
    /\ calls[1].route = "/contexts"
    /\ calls[1].body.title = C6_Trimmed(args.title)
    /\ calls[1].body.content = C6_Trimmed(args.content)
    /\ C6_OnlyArray(calls[1].body, "tags", args.tags)
    /\ C6_OnlyArray(calls[1].body, "files", args.files)

ListedIn(v) ==
    IF v.t = "array" THEN v.items
    ELSE IF v.items.t = "array" THEN v.items.items
    ELSE <<>>

\* the offset of the request (0 when none was given)
C7_Offset == IF args.offset.t = "number" THEN args.offset.n ELSE 0

\* the total of the normalized answer: the envelope's total_count, the
\* length of a bare sequence
C7_Total ==
    IF answer.value.t = "array" THEN Len(answer.value.items)
    ELSE IF answer.value.total_count.t = "number" THEN answer.value.total_count.n
    ELSE 0

\* the envelope reports the offset that was asked for
C7_SameOffset ==
    \/ answer.value.t = "array"
    \/ (IF answer.value.offset.t = "number" THEN answer.value.offset.n ELSE 0) = C7_Offset

\* C7: list_contexts computes pagination.hasMore as offset + number of
\* returned contexts < total_count from the normalized list answer, for an
\* envelope and for a bare sequence alike, and never fails because of the
\* shape of the answer.
C7_HasMore ==
    (Listed("list_contexts") /\ C7_SameOffset) =>
        /\ ~result.isError
        /\ result.content.pagination.hasMore =
               Bool(C7_Offset + Len(ListedIn(answer.value)) < C7_Total)

\* the positions of the listed contexts whose id is the one asked for
C8_Hits ==
    { i \in 1..Len(ListedIn(answer.value)) :
        ListedIn(answer.value)[i].id = args.context_id }

C9_Valid ==
    /\ args.context_ids.t = "array"
    /\ Len(args.context_ids.items) >= 2
    /\ Len(args.context_ids.items) <= 10
    /\ args.consolidation_type \in { Word("summarize", 9), Word("compose", 7) }

\* C9: consolidate_contexts passes validation exactly when context_ids is
\* an array of 2 to 10 ids and consolidation_type is summarize or compose;
\* failing validation gives an error-flagged Tool Result and no remote
\* call, passing it causes one POST to /contexts/consolidate.
C9_ConsolidateBounds ==
    Called("consolidate_contexts") =>
        IF C9_Valid
        THEN /\ Len(calls) = 1
             /\ calls[1].method = "POST"
             /\ calls[1].route = "/contexts/consolidate"
             /\ calls[1].body.context_ids = args.context_ids
             /\ calls[1].body.consolidation_type = args.consolidation_type
        ELSE /\ hpc = "returned"
             /\ result.isError
             /\ calls = <<>>

\* ten ids passed validation and the POST is in flight
C9_Witness ==
    /\ tool = "consolidate_contexts"
    /\ hpc = "awaiting"
    /\ Len(args.context_ids.items) = 10
    /\ Len(calls) = 1

\* the envelope {items: S, total_count: |S|} of a bare sequence S
C10_EnvelopeOf(v) == [t |-> "object", items |-> v, total_count |-> Num(Len(v.items))]

\* C10: every tool that surfaces a list (list_contexts, search_contexts,
\* get_context, get_context_stats) is independent of the shape of the
\* remote's answer: a bare sequence S gives the outcome of the envelope
\* {items: S, total_count: |S|}, an object without items is an empty list,
\* and no shape makes the tool end in an error result.  (The
\* handleListContexts of tools/contexts.cjs is left to C7.)
C10_ShapeIndependent ==
    (tool \in ListTools /\ impl # "tools/contexts.cjs"
       /\ hpc = "returned" /\ answer.kind = "json"
       /\ answer.value.t \in {"array", "object"}) =>
        /\ answer.value.t = "array" =>
               result = HandlerReturn(tool, impl, args, Json(C10_EnvelopeOf(answer.value)))
        /\ (answer.value.t = "object" /\ answer.value.items.t = "undefined") =>
               result = HandlerReturn(tool, impl, args,
                                      Json([answer.value EXCEPT !.items = Arr(<<>>)]))
        /\ result.isError => result.content.kind = "NotFound"

\* C12: every tool handler, whatever its arguments and whatever the remote
\* call comes back with (JSON, an object lacking the expected properties,
\* null, a timeout, a non-2xx status, invalid JSON, a failed redirect),
\* returns a Tool Result and never raises: a rejected argument and a failed
\* remote call give an error-flagged result carrying the handler's prefix
\* and the error's message, and a result without the flag is only given
\* after the remote answered.
C12_AlwaysToolResult ==
    (tool \in RegisteredTools /\ hpc = "returned") =>
        /\ result.type = "text"
        /\ result.isError \in BOOLEAN
        /\ (calls = <<>> \/ answer.kind = "error") =>
               (result.isError /\ result.prefix = ErrorPrefix(tool))
        /\ calls = <<>> => result.content.kind = "Validation"
        /\ answer.kind = "error" => result.content = TransportError(answer.error)
        /\ ~result.isError => (answer.kind = "json" /\ result.prefix = "")

\* get_raw_url was answered with null and returned the TypeError of reading
\* result.raw_url as an error-flagged Tool Result
C12_Witness ==
    /\ tool = "get_raw_url"
    /\ hpc = "returned"
    /\ answer = Json(Null)
    /\ result.type = "text"
    /\ result.isError
    /\ result.content.kind = "TypeError"

\* the query string of the request sent carries v under key
C11_Carries(key, v) ==
    \E i \in 1..Len(calls[1].query) :
        /\ calls[1].query[i].key = key
        /\ calls[1].query[i].value = [text |-> "string", s |-> v]

\* C11: search_contexts with a valid query q issues exactly one
\* GET /contexts request whose query string carries q as the `search`
\* filter; the query is never dropped from the outbound request.
C11_QuerySent ==
    (Called("search_contexts") /\ calls # <<>>) =>
        /\ Len(calls) = 1
        /\ calls[1].method = "GET"
        /\ calls[1].route = "/contexts"
        /\ C11_Carries("search", args.query)

\* the limit of the arguments is a number outside 1..50, or no number
C20_BadLimit ==
    /\ args.limit.t # "undefined"
    /\ \/ args.limit.t # "number"
       \/ args.limit.n < 1
       \/ args.limit.n > 50

\* the query of the arguments is missing, not a string, empty or blank
C20_BadQuery ==
    \/ args.query.t # "string"
    \/ args.query.len = 0

\* the limit entry of the query string of the request sent
C20_LimitSent(n) ==
    \E i \in 1..Len(calls[1].query) :
        calls[1].query[i] = [key |-> "limit", value |-> [text |-> "digits", n |-> n]]

\* C20: search_contexts rejects an empty, blank or non-string query and
\* every limit outside 1..50 before any remote call, uses limit 10 when
\* limit is omitted, and forwards a limit inside 1..50 unchanged.
C20_SearchLimits ==
    Called("search_contexts") =>
        IF C20_BadQuery \/ C20_BadLimit
        THEN /\ hpc = "returned"
             /\ result.isError
             /\ calls = <<>>
        ELSE /\ Len(calls) = 1
             /\ C20_LimitSent(IF args.limit.t = "undefined" THEN 10 ELSE args.limit.n)

\* the contexts the list call of get_context_stats fetched
C18_Fetched == answer.value.items.items

\* get_context_stats returned after its list call was answered with an
\* envelope that carries its items
C18_Aggregated ==
    /\ Answered("get_context_stats")
    /\ answer.value.t = "object"
    /\ answer.value.items.t = "array"

\* the grouping asked for; category when none is
C18_GroupBy == IF args.group_by.t = "undefined" THEN "category" ELSE args.group_by.w

\* the sum of the counts of a statistics object
RECURSIVE C18_Sum(_)
C18_Sum(stats) ==
    IF stats = {} THEN 0
    ELSE LET e == CHOOSE x \in stats : TRUE IN e.count + C18_Sum(stats \ {e})

\* the word counts of the fetched contexts, added up
C18_Words ==
    LET RECURSIVE upTo(_)
        upTo(i) == IF i = 0 THEN 0 ELSE C18_Fetched[i].word_count.n + upTo(i - 1)
    IN upTo(Len(C18_Fetched))

\* the (context, position) pairs at which a fetched context carries tag g
C18_Carriers(g) ==
    { <<i, j>> \in (1..Len(C18_Fetched)) \X (1..2) :
        /\ j <= Len(C18_Fetched[i].tags.items)
        /\ C18_Fetched[i].tags.items[j] = g }

C17_StatsCalls ==
    { i \in 1..Len(history) :
        history[i].tool = "get_context_stats" /\ history[i].answer.kind = "json" }

C19_OnlyContextId ==
    /\ args.context_id.t = "string"
    /\ args.context_id.len > 0
    /\ \A f \in {"title", "content", "category", "is_favorite", "tags", "files"} :
           args[f] = [t |-> "undefined"]

\* C19: update_context asks for at least one field to update besides the
\* context_id: a call that holds the context_id alone is rejected with an
\* error-flagged Tool Result and no PUT is sent.
C19_UpdateNeedsField ==
    (Called("update_context") /\ C19_OnlyContextId) =>
        /\ hpc = "returned"
        /\ result.isError
        /\ calls = <<>>

\* the categories of the input schema of list_contexts
C21_Categories == {"personal", "work", "research", "templates", "prompts", "other"}

\* the arguments of list_contexts hold a limit that is no number in 1..100,
\* an offset that is no number >= 0, or a category outside the schema's
C21_Invalid ==
    \/ args.limit.t # "undefined" /\ (args.limit.t # "number" \/ args.limit.n < 1
                                         \/ args.limit.n > 100)
    \/ args.offset.t # "undefined" /\ (args.offset.t # "number" \/ args.offset.n < 0)
    \/ args.category.t # "undefined" /\ (args.category.t # "string"
                                            \/ args.category.w \notin C21_Categories)

\* C21: list_contexts rejects, before any remote call, every limit that
\* is no number in 1..100, every offset that is no number >= 0 and every
\* category outside personal, work, research, templates, prompts, other;
\* every other combination of filters is accepted and causes one list call.
C21_ListValidation ==
    Called("list_contexts") =>
        IF C21_Invalid
        THEN /\ hpc = "returned"
             /\ result.isError
             /\ calls = <<>>
        ELSE Len(calls) = 1

\* C27: a call of a registered tool whose arguments fail validation issues
\* no remote request; one whose arguments pass invokes exactly one method
\* of the Remote Operations Client.  A remote call that failed is not
\* issued again, and its failure is reported once, as the error-flagged
\* Tool Result of that call.
C27_OneCallNoRetry ==
    (tool \in RegisteredTools /\ hpc # "idle") =>
        /\ Len(calls) <= 1
        /\ hpc = "awaiting" => (Len(calls) = 1 /\ result.type = "none")
        /\ (hpc = "returned" /\ answer.kind = "none") =>
               /\ calls = <<>>
               /\ result.isError
               /\ result.content.kind = "Validation"
        /\ (hpc = "returned" /\ answer.kind # "none") => Len(calls) = 1
        /\ answer.kind = "error" =>
               /\ hpc = "returned"
               /\ result.type = "text"
               /\ result.isError
               /\ result.content.kind = answer.error

\* export_contexts passed validation, its one POST timed out, and the
\* handler returned the timeout as an error-flagged Tool Result
C27_Witness ==
    /\ tool = "export_contexts"
    /\ hpc = "returned"
    /\ Len(calls) = 1
    /\ calls[1].method = "POST"
    /\ answer.kind = "error"
    /\ answer.error = "Timeout"
    /\ result.isError

-----------------------------------------------------------------------------
(***************************************************************************)
(* Properties of the dispatch loop (Spec)                                  *)
(***************************************************************************)

\* the line is a tools/call whose params.name is a non-empty string that
\* is none of the registered tool names
C1_NamesNoTool(l) ==
    /\ l.kind = "envelope"
    /\ l.method = "tools/call"
    /\ l.params.t = "object"
    /\ l.params.name.t = "string"
    /\ l.params.name.len > 0
    /\ l.params.name.w \notin RegisteredTools

\* C1: a tools/call whose params.name is a non-empty string that is not
\* one of the 11 registered tool names is answered with a JSON-RPC error
\* of code -32601 whose message contains the attempted name, never with a
\* result, and no handler runs for it.
C1_UnknownToolRejected ==
    \A n \in 1..Len(log) :
        C1_NamesNoTool(log[n]) =>
            /\ \A k \in 1..Len(output) :
                   output[k].of = n =>
                       /\ output[k].text.result = [t |-> "undefined"]
                       /\ output[k].text.error # [t |-> "undefined"]
                       /\ output[k].text.error.code = -32601
                       /\ output[k].text.error.message.name = log[n].params.name
            /\ \A i \in 1..Len(invoked) : invoked[i].of # n

\* C2: no response line is ever written for a notification: for every
\* parsed envelope without an id, whatever its method, the dispatch loop
\* writes nothing to the output stream.
C2_NoReplyToNotification ==
    \A k \in 1..Len(output) :
        log[output[k].of].kind = "envelope" => log[output[k].of].id # [t |-> "undefined"]

\* the id a response to the line l has to carry: the id of the envelope,
\* null when the line holds none that could be read
C13_IdOf(l) ==
    IF l.kind = "envelope" /\ l.id # [t |-> "undefined"] THEN l.id ELSE [t |-> "null"]

\* C13: every response line written carries jsonrpc "2.0", exactly one of
\* result and error, an error made of a code and a message, and the id of
\* the request it answers (null only when the line holds no id that could
\* be read).
C13_WellFormedResponses ==
    \A k \in 1..Len(output) :
        LET r == output[k].text IN
        /\ r.jsonrpc = "2.0"
        /\ (r.result # [t |-> "undefined"]) # (r.error # [t |-> "undefined"])
        /\ r.error # [t |-> "undefined"] =>
               /\ DOMAIN r.error = {"code", "message"}
               /\ r.error.code \in Int
               /\ r.error.message.text # ""
        /\ r.id = C13_IdOf(log[output[k].of])

\* a request with id 2 was answered with a result carrying id 2, after a
\* line answered with an error
C13_Witness ==
    /\ Len(output) = 2
    /\ output[1].text.error # [t |-> "undefined"]
    /\ output[2].of = 2
    /\ log[2].id = [t |-> "number", n |-> 2]
    /\ output[2].text.id = [t |-> "number", n |-> 2]
    /\ output[2].text.result # [t |-> "undefined"]

\* C14: a line that is not blank and that JSON.parse rejects gets exactly
\* one response, the error -32700 with id null, written when the line is
\* read; the loop goes on and answers the lines after it.
C14_ParseErrorAnswered ==
    \A n \in 1..Len(log) :
        log[n].kind = "malformed" =>
            /\ Cardinality({ k \in 1..Len(output) : output[k].of = n }) = 1
            /\ \A k \in 1..Len(output) :
                   output[k].of = n =>
                       /\ output[k].text.jsonrpc = "2.0"
                       /\ output[k].text.id = [t |-> "null"]
                       /\ output[k].text.result = [t |-> "undefined"]
                       /\ output[k].text.error.code = -32700
            /\ \A i \in 1..Len(invoked) : invoked[i].of # n
            /\ proc.state = "running" \/ proc.code = 0

\* a malformed first line was answered with the parse error and the ping
\* after it with its result
C14_Witness ==
    /\ Len(log) = 2
    /\ log[1].kind = "malformed"
    /\ log[2].kind = "envelope"
    /\ log[2].method = "ping"
    /\ Len(output) = 2
    /\ output[1].of = 1
    /\ output[1].text.error.code = -32700
    /\ output[2].of = 2
    /\ output[2].text.result = [status |-> "ok"]

\* the line is a tools/call whose params are absent or hold no name
C15_Nameless(l) ==
    /\ l.kind = "envelope"
    /\ l.method = "tools/call"
    /\ \/ l.params = [t |-> "undefined"]
       \/ l.params.name = [t |-> "undefined"]

\* C15: a tools/call whose params are absent, or whose params.name is
\* absent, is answered with the error -32602 carrying the id of the
\* request (null when it has none); no handler is invoked and no remote
\* call is made for it.
C15_MissingName ==
    \A n \in 1..Len(log) :
        C15_Nameless(log[n]) =>
            /\ \A k \in 1..Len(output) :
                   output[k].of = n =>
                       /\ output[k].text.result = [t |-> "undefined"]
                       /\ output[k].text.error.code = -32602
                       /\ output[k].text.id =
                              (IF log[n].id = [t |-> "undefined"]
                               THEN [t |-> "null"] ELSE log[n].id)
            /\ \A i \in 1..Len(invoked) : invoked[i].of # n
            /\ \A j \in pending : j.of # n
            /\ (micro = <<>> /\ proc.state = "running") =>
                   \E k \in 1..Len(output) : output[k].of = n

\* a tools/call with id 2 and no params was answered with -32602 and id 2
C15_Witness ==
    /\ Len(log) >= 1
    /\ log[1].kind = "envelope"
    /\ log[1].method = "tools/call"
    /\ log[1].params = [t |-> "undefined"]
    /\ log[1].id = [t |-> "number", n |-> 2]
    /\ Len(output) >= 1
    /\ output[1].of = 1
    /\ output[1].text.error.code = -32602
    /\ output[1].text.id = [t |-> "number", n |-> 2]

\* the entries of a queue or of the output that belong to the n-th line
C16_Traces(n) ==
    { k \in 1..Len(output) : output[k].of = n }
    \cup { k \in 1..Len(invoked) : invoked[k].of = n }
    \cup { k \in 1..Len(micro) : micro[k].of = n }
    \cup { j.of : j \in { q \in pending : q.of = n } }

\* C16: a blank line, empty or made of blanks only, is skipped wherever it
\* comes in the input: nothing is written for it, no handler is invoked and
\* no remote call is made.
C16_BlankSkipped ==
    \A n \in 1..Len(log) :
        (log[n].text.t = "string" /\ log[n].text.len = 0) => C16_Traces(n) = {}

\* a line of blanks was read while a tools/call was waiting for the
\* remote, and nothing was written
C16_Witness ==
    /\ Len(log) = 2
    /\ log[1].method = "tools/call"
    /\ log[2].text = [t |-> "string", lead |-> 2, w |-> "", len |-> 0, trail |-> 1]
    /\ pending # {}
    /\ micro = <<>>
    /\ output = <<>>

\* C22: the end of the input stream, SIGINT and SIGTERM take the same
\* path, the reader's close event: the process leaves the running state
\* only by exiting with code 0, and from then on no line is read, no
\* handler resumes and nothing is written.
C22_CleanShutdown ==
    [][/\ proc' # proc =>
            /\ proc.state = "running"
            /\ proc' = [state |-> "exited", code |-> 0]
            /\ UNCHANGED <<log, micro, pending, output, invoked>>
       /\ proc.state = "exited" => UNCHANGED <<log, micro, pending, output, invoked, proc>>
      ]_vars

\* the process exited with code 0 after it had read a line and answered it
C22_Witness ==
    /\ proc = [state |-> "exited", code |-> 0]
    /\ Len(log) >= 1
    /\ Len(output) >= 1

\* the n-th line was read, parsed and handed to handleMCPRequest, which
\* gave or will give a response for it
C23_Owed(n) ==
    \/ \E j \in pending : j.of = n
    \/ \E i \in 1..Len(micro) : micro[i].of = n

\* C23: a close of the input stream or a termination signal that arrives
\* while a line is being processed stops the loop only after that line's
\* processing: when the process has exited, no line that was read is left
\* with its response unwritten.
C23_ResponseBeforeExit ==
    proc.state = "exited" => \A n \in 1..Len(log) : ~C23_Owed(n)

\* C24: lines are processed one at a time: the response to a line is
\* never written while a line read before it is still being processed, so
\* the responses appear in the order of the lines they answer.
C24_OneAtATime ==
    /\ \A k \in 1..Len(output) : \A n \in 1..Len(log) :
           n < output[k].of => ~(\E j \in pending : j.of = n)
    /\ \A k1 \in 1..Len(output) : \A k2 \in 1..Len(output) :
           k1 < k2 => output[k1].of <= output[k2].of

\* the Tool Result r is one the handler of the tool named in line l gives
\* for the arguments of l
C25_ResultOf(l, r) ==
    LET name == l.params.name.w IN
    /\ r.type = "text"
    /\ r.isError => r.prefix = ErrorPrefix(name)
    /\ (~r.isError /\ name = "get_context") => r.content.id = l.params.arguments.context_id
    /\ (~r.isError /\ name = "create_context") =>
           r.content.message = "Context created successfully"

\* C25: with several tools/call invocations outstanding, the response of
\* each is written as one line in the step in which its remote call
\* settles, after everything written before: the order of the response
\* lines is the order of completion.  The line written carries the id of
\* the request that completed and the result of that request's tool.
C25_CompletionOrder ==
    [][\A job \in pending :
          job \notin pending' =>
              LET last == Len(output') IN
              /\ last = Len(output) + 1
              /\ SubSeq(output', 1, Len(output)) = output
              /\ pending' = pending \ {job}
              /\ output'[last].of = job.of
              /\ output'[last].text.id = C13_IdOf(log[job.of])
              /\ output'[last].text.error = [t |-> "undefined"]
              /\ C25_ResultOf(log[job.of], output'[last].text.result)
      ]_vars

\* two tools/call lines with ids 1 and 2 were outstanding together and the
\* second completed first: its response, with id 2, is the first line
C25_Witness ==
    /\ Len(log) = 2
    /\ log[1].method = "tools/call"
    /\ log[2].method = "tools/call"
    /\ log[1].id = [t |-> "number", n |-> 1]
    /\ log[2].id = [t |-> "number", n |-> 2]
    /\ Len(output) = 2
    /\ output[1].of = 2
    /\ output[1].text.id = [t |-> "number", n |-> 2]
    /\ output[2].of = 1
    /\ output[2].text.id = [t |-> "number", n |-> 1]
    /\ pending = {}
    /\ Len(invoked) = 2

\* the Tool Results the tools/call line l can be answered with: the one
\* its arguments are rejected with, or those its handler returns for the
\* answers of the remote
C26_ResultsOf(l) ==
    LET name == l.params.name.w
        a == IF l.params.arguments = [t |-> "undefined"] THEN [t |-> "object"]
             ELSE l.params.arguments
        s == HandlerStart(name, a)
    IN
    IF s.threw
    THEN { [type |-> "text", isError |-> TRUE, prefix |-> ErrorPrefix(name),
            content |-> s.error] }
    ELSE { HandlerReturn(name, LoadedModule(name), a, ans) : ans \in DispatchAnswers(name) }

\* the line is a tools/call that names a registered tool
C26_CallsTool(l) ==
    /\ l.kind = "envelope"
    /\ l.method = "tools/call"
    /\ l.params.t = "object"
    /\ l.params.name.t = "string"
    /\ l.params.name.w \in RegisteredTools

\* C26: the dispatch loop keeps no state between lines.  Wherever they
\* come in the input, initialize, tools/list, resources/list and ping are
\* answered with their fixed results, and a tools/call on a registered tool
\* is answered with a result that its own arguments and the remote's answer
\* determine, whether or not initialize came before and whatever the lines
\* before it were.
C26_Stateless ==
    \A k \in 1..Len(output) :
        LET l == log[output[k].of]
            r == output[k].text
        IN
        /\ (l.kind = "envelope" /\ l.method = "initialize") =>
               r.result = [protocolVersion |-> "2024-11-05",
                           capabilities |-> {"tools", "logging", "experimental"},
                           serverInfo |-> [name |-> "convolut-mcp-server",
                                           version |-> "1.0.0"]]
        /\ (l.kind = "envelope" /\ l.method = "tools/list") =>
               r.result = [tools |-> RegisteredTools]
        /\ (l.kind = "envelope" /\ l.method = "resources/list") =>
               r.result = [resources |-> <<>>]
        /\ (l.kind = "envelope" /\ l.method = "ping") => r.result = [status |-> "ok"]
        /\ C26_CallsTool(l) =>
               /\ r.error = [t |-> "undefined"]
               /\ r.result \in C26_ResultsOf(l)

\* a get_context call that came after a malformed line, with no
\* initialize before it, was answered with the context it asked for
C26_Witness ==
    /\ Len(log) = 2
    /\ log[1].kind = "malformed"
    /\ C26_CallsTool(log[2])
    /\ log[2].params.name.w = "get_context"
    /\ Len(output) = 2
    /\ output[2].of = 2
    /\ ~output[2].text.result.isError
    /\ output[2].text.result.content.id = log[2].params.arguments.context_id

\* the response lines written for the n-th line
C29_Responses(n) == { k \in 1..Len(output) : output[k].of = n }

\* the n-th line was read and is an envelope that carries an id
C29_HasId(n) ==
    /\ Len(log) >= n
    /\ log[n].kind = "envelope"
    /\ log[n].id # [t |-> "undefined"]

\* C29: every line that parses to an envelope carrying an id, whatever
\* its method (notifications/initialized and unknown methods included),
\* is in the end answered with exactly one response line carrying that
\* id, never with none and never with two, as long as every HTTPS call
\* ends and the process is not shut down.
C29_AnsweredOnce ==
    /\ [](\A n \in 1..MaxLines : Cardinality(C29_Responses(n)) <= 1)
    /\ \A n \in 1..MaxLines :
           C29_HasId(n) ~>
               /\ Cardinality(C29_Responses(n)) = 1
               /\ \A k \in C29_Responses(n) : output[k].text.id = log[n].id

=============================================================================
